---- MODULE Spec2Model ----
(***************************************************************************)
(* Model of avdc/utility/httpclient.py, class ResponseStream: a lazy,      *)
(* seekable byte stream over a single-pass iterator of byte chunks.  The   *)
(* stream keeps an io.BytesIO (a byte string plus a position) and the      *)
(* iterator; read/seek/tell are one action each, computed as the code      *)
(* computes them, including the BytesIO calls they make.                   *)
(***************************************************************************)
EXTENDS Integers, Sequences, FiniteSets, TLC

(* ------------------------------ bounds --------------------------------- *)
\* longest chunk sequence the iterator yields before StopIteration
MaxChunks == 2
\* longest single chunk (0 = an empty chunk)
MaxChunkLen == 2

\* the longest stream such an iterator carries
MaxStream == MaxChunks * MaxChunkLen
\* sizes passed to read and positions passed to seek: one negative value, and
\* up to one more than the longest chunk, so that a read can span two chunks
\* and run past the end of the stream
Sizes == (0 - 1) .. (MaxChunkLen + 1)
Positions == (0 - 1) .. (MaxChunkLen + 1)

(* io.SEEK_SET, io.SEEK_CUR, io.SEEK_END as imported / defaulted by the code *)
SEEK_SET == 0
SEEK_CUR == 1
SEEK_END == 2
\* whence values a caller may pass; one of them is not a valid whence
Whences == 0 .. 3

(* ------------------------------ helpers -------------------------------- *)
Max(a, b) == IF a >= b THEN a ELSE b
Min(a, b) == IF a <= b THEN a ELSE b

BoundedSeq(S, n) == UNION {[1 .. k -> S] : k \in 0 .. n}

\* s[lo+1 .. hi] in 0-based half-open terms: the bytes at offsets [lo, hi)
Slice(s, lo, hi) == IF hi <= lo THEN << >> ELSE SubSeq(s, lo + 1, hi)

IsPrefix(s, t) == Len(s) <= Len(t) /\ \A i \in 1 .. Len(s) : s[i] = t[i]

\* what one next() on the iterator can produce before StopIteration:
\* a chunk of bytes, or an exception raised by the underlying transport
Chunk(d) == [fail |-> FALSE, data |-> d]
Failure == [fail |-> TRUE, data |-> << >>]

\* The code never inspects a byte, so a stream is drawn by its shape only (the
\* length of each chunk, and where the transport fails) and the byte at stream
\* offset k carries the label k + 1: every byte of a stream is distinct, and
\* none is the padding byte 0 that BytesIO.write inserts.
ItemShapes == {[fail |-> FALSE, len |-> n] : n \in 0 .. MaxChunkLen}
                \cup {[fail |-> TRUE, len |-> 0]}

RECURSIVE ShapeOffset(_, _)
ShapeOffset(sh, i) == IF i <= 1 THEN 0 ELSE ShapeOffset(sh, i - 1) + sh[i - 1].len

FillShape(sh) ==
  [i \in 1 .. Len(sh) |->
     IF sh[i].fail THEN Failure
     ELSE Chunk([j \in 1 .. sh[i].len |-> ShapeOffset(sh, i) + j])]

Sources == {FillShape(sh) : sh \in BoundedSeq(ItemShapes, MaxChunks)}

\* the bytes the first k items of an iterator carry, in order
RECURSIVE Concat(_, _)
Concat(items, k) == IF k = 0 THEN << >> ELSE Concat(items, k - 1) \o items[k].data

(* ------------------------------ io.BytesIO ----------------------------- *)
\* a BytesIO value: its byte string and its position
NewBytesIO == [buf |-> << >>, pos |-> 0]

\* BytesIO.seek(position, whence): the new object, the returned position, and
\* whether ValueError was raised (negative absolute seek, invalid whence)
BytesIO_seek(b, position, whence) ==
  IF position < 0 /\ whence = SEEK_SET
  THEN [b |-> b, ret |-> 0, err |-> TRUE]
  ELSE IF whence \notin {SEEK_SET, SEEK_CUR, SEEK_END}
  THEN [b |-> b, ret |-> 0, err |-> TRUE]
  ELSE LET raw == CASE whence = SEEK_CUR -> b.pos + position
                    [] whence = SEEK_END -> Len(b.buf) + position
                    [] OTHER -> position
           np == IF raw < 0 THEN 0 ELSE raw
       IN [b |-> [b EXCEPT !.pos = np], ret |-> np, err |-> FALSE]

\* BytesIO.write(chunk): writes at the position, zero-filling a gap past the
\* end and overwriting what lies under the chunk; an empty chunk writes nothing
BytesIO_write(b, chunk) ==
  IF Len(chunk) = 0 THEN b
  ELSE LET endpos == b.pos + Len(chunk)
           newlen == Max(Len(b.buf), endpos)
           nb == [i \in 1 .. newlen |->
                    IF i > b.pos /\ i <= endpos THEN chunk[i - b.pos]
                    ELSE IF i <= Len(b.buf) THEN b.buf[i]
                    ELSE 0]
       IN [buf |-> nb, pos |-> endpos]

BytesIO_tell(b) == b.pos

\* BytesIO.read(size): sized = FALSE stands for size None; None and any
\* negative size read to the end of the byte string
BytesIO_read(b, size, sized) ==
  LET avail == Len(b.buf) - b.pos
      want == IF (~sized) \/ size < 0 \/ size > avail THEN avail ELSE size
      n == IF want < 0 THEN 0 ELSE want
  IN [b |-> [b EXCEPT !.pos = b.pos + n], ret |-> Slice(b.buf, b.pos, b.pos + n)]

(* ------------------------------ the iterator --------------------------- *)
\* next(iterator): a chunk, the transport's exception, or StopIteration; once
\* the items are used up every later call is StopIteration again
IterNext(it) ==
  IF it.idx >= Len(it.items)
  THEN [it |-> [it EXCEPT !.done = TRUE], kind |-> "stop", chunk |-> << >>]
  ELSE LET item == it.items[it.idx + 1]
           nit == [it EXCEPT !.idx = it.idx + 1]
       IN IF item.fail
          THEN [it |-> nit, kind |-> "error", chunk |-> << >>]
          ELSE [it |-> nit, kind |-> "chunk", chunk |-> item.data]

(* ------------------------------ ResponseStream ------------------------- *)
\* _load_all() whose loop swallows the transport's exception and stops
RECURSIVE LoadAllLoop_Swallow(_, _, _)
LoadAllLoop_Swallow(b, it, n) ==
  LET r == IterNext(it) IN
  CASE r.kind = "stop"  -> [b |-> b, it |-> r.it, pulls |-> n + 1, err |-> FALSE]
    [] r.kind = "error" -> [b |-> b, it |-> r.it, pulls |-> n + 1, err |-> FALSE]
    [] OTHER            -> LoadAllLoop_Swallow(BytesIO_write(b, r.chunk), r.it, n + 1)

\* the for loop of _load_all: write every chunk the iterator still yields;
\* n counts the next() calls made, the closing StopIteration included
RECURSIVE LoadAllLoop(_, _, _)
LoadAllLoop(b, it, n) ==
  LET r == IterNext(it) IN
  CASE r.kind = "stop"  -> [b |-> b, it |-> r.it, pulls |-> n + 1, err |-> FALSE]
    [] r.kind = "error" -> [b |-> b, it |-> r.it, pulls |-> n + 1, err |-> TRUE]
    [] OTHER            -> LoadAllLoop(BytesIO_write(b, r.chunk), r.it, n + 1)

\* _load_all() without its seek to the end: chunks land at the cursor
LoadAll_NoSeekEnd(b, it) == LoadAllLoop(b, it, 0)

\* _load_all(): position the BytesIO at its end, then drain the iterator
LoadAll(b, it) == LoadAllLoop(BytesIO_seek(b, 0, SEEK_END).b, it, 0)

\* the while loop of _load_until without `except StopIteration`: the end of
\* the iterator leaves the method as an exception
RECURSIVE LoadUntilLoop_NoCatch(_, _, _, _, _)
LoadUntilLoop_NoCatch(b, it, current_position, goal_position, n) ==
  IF current_position < goal_position
  THEN LET r == IterNext(it) IN
       CASE r.kind = "stop"  -> [b |-> b, it |-> r.it, pulls |-> n + 1, err |-> TRUE]
         [] r.kind = "error" -> [b |-> b, it |-> r.it, pulls |-> n + 1, err |-> TRUE]
         [] OTHER            -> LoadUntilLoop_NoCatch(BytesIO_write(b, r.chunk), r.it,
                                                      current_position + Len(r.chunk),
                                                      goal_position, n + 1)
  ELSE [b |-> b, it |-> it, pulls |-> n, err |-> FALSE]

\* the while loop of _load_until with `<=` for `<`: pulls once more on reaching the goal
RECURSIVE LoadUntilLoop_Eager(_, _, _, _, _)
LoadUntilLoop_Eager(b, it, current_position, goal_position, n) ==
  IF current_position <= goal_position
  THEN LET r == IterNext(it) IN
       CASE r.kind = "stop"  -> [b |-> b, it |-> r.it, pulls |-> n + 1, err |-> FALSE]
         [] r.kind = "error" -> [b |-> b, it |-> r.it, pulls |-> n + 1, err |-> TRUE]
         [] OTHER            -> LoadUntilLoop_Eager(BytesIO_write(b, r.chunk), r.it,
                                                    current_position + Len(r.chunk),
                                                    goal_position, n + 1)
  ELSE [b |-> b, it |-> it, pulls |-> n, err |-> FALSE]

\* the while loop of _load_until: current_position is the local the code
\* advances by what write() returns, the length of the chunk
RECURSIVE LoadUntilLoop(_, _, _, _, _)
LoadUntilLoop(b, it, current_position, goal_position, n) ==
  IF current_position < goal_position
  THEN LET r == IterNext(it) IN
       CASE r.kind = "stop"  -> [b |-> b, it |-> r.it, pulls |-> n + 1, err |-> FALSE]
         [] r.kind = "error" -> [b |-> b, it |-> r.it, pulls |-> n + 1, err |-> TRUE]
         [] OTHER            -> LoadUntilLoop(BytesIO_write(b, r.chunk), r.it,
                                              current_position + Len(r.chunk),
                                              goal_position, n + 1)
  ELSE [b |-> b, it |-> it, pulls |-> n, err |-> FALSE]

\* _load_until starting from tell() instead of the end of the BytesIO
LoadUntil_FromCursor(b, it, goal_position) ==
  LoadUntilLoop(b, it, BytesIO_tell(b), goal_position, 0)

\* _load_until taking the buffer length without moving the BytesIO to its end
LoadUntil_NoSeekEnd(b, it, goal_position) ==
  LoadUntilLoop(b, it, Len(b.buf), goal_position, 0)

\* _load_until(goal_position)
LoadUntil(b, it, goal_position) ==
  LET s == BytesIO_seek(b, 0, SEEK_END)
  IN LoadUntilLoop(s.b, it, s.ret, goal_position, 0)

(* ------------------------------ state ---------------------------------- *)
VARIABLES
  bytes,     \* self._bytes: [buf, pos]
  iterator,  \* self._iterator: [items, idx, done]
  call,      \* the last call made on the stream: [op, arg, whence]
  pre,       \* bytes and iterator as they were when that call started
  result     \* how that call ended: [outcome, kind, data, val, pulls]

vars == <<bytes, iterator, call, pre, result>>

\* what a call hands back: outcome is "return", "ValueError" (raised by
\* BytesIO) or "SourceError" (raised by the iterator); kind tells which of
\* data (bytes), val (int) is the returned value, "None" when neither
Returned(kind, data, val, pulls) ==
  [outcome |-> "return", kind |-> kind, data |-> data, val |-> val, pulls |-> pulls]
Raised(exc, pulls) ==
  [outcome |-> exc, kind |-> "None", data |-> << >>, val |-> 0, pulls |-> pulls]

\* ResponseStream(request_iterator): an empty BytesIO, nothing pulled yet
Init ==
  /\ bytes = NewBytesIO
  /\ \E items \in Sources :
       iterator = [items |-> items, idx |-> 0, done |-> FALSE]
  /\ call = [op |-> "init", arg |-> 0, whence |-> SEEK_SET]
  /\ pre = [bytes |-> bytes, iterator |-> iterator]
  /\ result = Returned("None", << >>, 0, 0)

\* what a method call leaves behind: the BytesIO, the iterator, and its result
After(b, it, res) == [bytes |-> b, iterator |-> it, result |-> res]

\* read() that forgets to go back to left_off_at before reading the BytesIO
ResponseStream_read_NoRewind(b, it, size, sized) ==
  LET left_off_at == BytesIO_tell(b)
      l == IF sized THEN LoadUntil(b, it, left_off_at + size)
                    ELSE LoadAll(b, it)
      r == BytesIO_read(l.b, size, sized)
  IN IF l.err THEN After(l.b, l.it, Raised("SourceError", l.pulls))
              ELSE After(r.b, l.it, Returned("bytes", r.ret, 0, l.pulls))

\* read() that goes to goal_position, not back to left_off_at, before reading
ResponseStream_read_SeekGoal(b, it, size, sized) ==
  LET left_off_at == BytesIO_tell(b)
      goal_position == IF sized THEN left_off_at + size ELSE left_off_at
      l == IF sized THEN LoadUntil(b, it, goal_position)
                    ELSE LoadAll(b, it)
      s == BytesIO_seek(l.b, goal_position, SEEK_SET)
      r == BytesIO_read(s.b, size, sized)
  IN IF l.err THEN After(l.b, l.it, Raised("SourceError", l.pulls))
     ELSE IF s.err THEN After(l.b, l.it, Raised("ValueError", l.pulls))
     ELSE After(r.b, l.it, Returned("bytes", r.ret, 0, l.pulls))

\* read(size=None): sized = FALSE is size None.  An exception from the
\* iterator leaves the method before the BytesIO is moved back to left_off_at.
ResponseStream_read(b, it, size, sized) ==
  LET left_off_at == BytesIO_tell(b)
      l == IF sized THEN LoadUntil(b, it, left_off_at + size)
                    ELSE LoadAll(b, it)
      s == BytesIO_seek(l.b, left_off_at, SEEK_SET)
      r == BytesIO_read(s.b, size, sized)
  IN IF l.err THEN After(l.b, l.it, Raised("SourceError", l.pulls))
              ELSE After(r.b, l.it, Returned("bytes", r.ret, 0, l.pulls))

\* seek() that materializes the stream for every whence but START
ResponseStream_seek_LoadUnlessStart(b, it, position, whence) ==
  IF whence # SEEK_SET
  THEN LET l == LoadAll(b, it)
       IN After(l.b, l.it, IF l.err THEN Raised("SourceError", l.pulls)
                                    ELSE Returned("None", << >>, 0, l.pulls))
  ELSE LET s == BytesIO_seek(b, position, whence)
       IN After(s.b, it, IF s.err THEN Raised("ValueError", 0)
                                  ELSE Returned("None", << >>, 0, 0))

\* seek(position, whence=SEEK_SET): the method has no return statement, and
\* its SEEK_END branch does not use position
ResponseStream_seek(b, it, position, whence) ==
  IF whence = SEEK_END
  THEN LET l == LoadAll(b, it)
       IN After(l.b, l.it, IF l.err THEN Raised("SourceError", l.pulls)
                                    ELSE Returned("None", << >>, 0, l.pulls))
  ELSE LET s == BytesIO_seek(b, position, whence)
       IN After(s.b, it, IF s.err THEN Raised("ValueError", 0)
                                  ELSE Returned("None", << >>, 0, 0))

\* tell() answered by seeking to the end of the BytesIO
ResponseStream_tell_SeekEnd(b, it) ==
  LET s == BytesIO_seek(b, 0, SEEK_END)
  IN After(s.b, it, Returned("int", << >>, s.ret, 0))

\* tell()
ResponseStream_tell(b, it) == After(b, it, Returned("int", << >>, BytesIO_tell(b), 0))

\* a call made on the stream: remember the call and the state it started
\* from, and move to what the method leaves behind
Do(c, after) ==
  /\ call' = c
  /\ pre' = [bytes |-> bytes, iterator |-> iterator]
  /\ bytes' = after.bytes
  /\ iterator' = after.iterator
  /\ result' = after.result

Read(size) ==
  Do([op |-> "read", arg |-> size, whence |-> SEEK_SET],
     ResponseStream_read(bytes, iterator, size, TRUE))

ReadAll ==
  Do([op |-> "readall", arg |-> 0, whence |-> SEEK_SET],
     ResponseStream_read(bytes, iterator, 0, FALSE))

\* repeated relative seeks are bounded: the cursor is kept within one byte
\* past the end of the stream the iterator carries
Seek(position, whence) ==
  /\ Do([op |-> "seek", arg |-> position, whence |-> whence],
        ResponseStream_seek(bytes, iterator, position, whence))
  /\ bytes'.pos <= Len(Concat(iterator.items, Len(iterator.items))) + 1

Tell ==
  Do([op |-> "tell", arg |-> 0, whence |-> SEEK_SET],
     ResponseStream_tell(bytes, iterator))

Next ==
  \/ \E size \in Sizes : Read(size)
  \/ ReadAll
  \/ \E position \in Positions, whence \in Whences : Seek(position, whence)
  \/ Tell

Spec == Init /\ [][Next]_vars

TypeOK ==
  /\ bytes.pos \in 0 .. MaxStream + 1
  /\ Len(bytes.buf) <= MaxStream
  /\ iterator.idx \in 0 .. Len(iterator.items)

(* ------------------------------ the pull loops, step by step ----------- *)
\* LoopSpec runs read(size), read() and seek(..., END) one loop iteration at a
\* time, over the same variables.  While such a call runs, result.outcome is
\* "running" and result.val holds current_position, the local of _load_until.
Running(current_position) ==
  [outcome |-> "running", kind |-> "None", data |-> << >>,
   val |-> current_position, pulls |-> 0]

\* one pass through `for chunk in self._iterator: self._bytes.write(chunk)`:
\* next is "loop" (a chunk was written), "exit" (StopIteration ended the for
\* loop) or "raise" (the iterator's exception leaves the method)
LoadAllStep(b, it) ==
  LET r == IterNext(it) IN
  CASE r.kind = "stop"  -> [b |-> b, it |-> r.it, next |-> "exit"]
    [] r.kind = "error" -> [b |-> b, it |-> r.it, next |-> "raise"]
    [] OTHER            -> [b |-> BytesIO_write(b, r.chunk), it |-> r.it, next |-> "loop"]

\* one pass through the while loop of _load_until with `pass` for `break`
\* under `except StopIteration`
LoadUntilStep_NoBreak(b, it, current_position, goal_position) ==
  IF current_position < goal_position
  THEN LET r == IterNext(it) IN
       CASE r.kind = "stop"  ->
              [b |-> b, it |-> r.it, cur |-> current_position, next |-> "loop"]
         [] r.kind = "error" ->
              [b |-> b, it |-> r.it, cur |-> current_position, next |-> "raise"]
         [] OTHER            ->
              [b |-> BytesIO_write(b, r.chunk), it |-> r.it,
               cur |-> current_position + Len(r.chunk), next |-> "loop"]
  ELSE [b |-> b, it |-> it, cur |-> current_position, next |-> "exit"]

\* one pass through the while loop of _load_until: the test of the condition
\* and, when it holds, the body
LoadUntilStep(b, it, current_position, goal_position) ==
  IF current_position < goal_position
  THEN LET r == IterNext(it) IN
       CASE r.kind = "stop"  ->
              [b |-> b, it |-> r.it, cur |-> current_position, next |-> "exit"]
         [] r.kind = "error" ->
              [b |-> b, it |-> r.it, cur |-> current_position, next |-> "raise"]
         [] OTHER            ->
              [b |-> BytesIO_write(b, r.chunk), it |-> r.it,
               cur |-> current_position + Len(r.chunk), next |-> "loop"]
  ELSE [b |-> b, it |-> it, cur |-> current_position, next |-> "exit"]

\* a call that loads starts: read() remembers left_off_at (kept in pre), the
\* loader moves the BytesIO to its end
Begin(c) ==
  /\ result.outcome # "running"
  /\ call' = c
  /\ pre' = [bytes |-> bytes, iterator |-> iterator]
  /\ LET s == BytesIO_seek(bytes, 0, SEEK_END)
     IN /\ bytes' = s.b
        /\ result' = Running(s.ret)
  /\ UNCHANGED iterator

BeginRead(size) == Begin([op |-> "read", arg |-> size, whence |-> SEEK_SET])

BeginReadAll == Begin([op |-> "readall", arg |-> 0, whence |-> SEEK_SET])

BeginSeekEnd(position) == Begin([op |-> "seek", arg |-> position, whence |-> SEEK_END])

\* what follows the loader once its loop is left: read() goes back to
\* left_off_at and reads the BytesIO, seek() just returns
Finish(b, it) ==
  IF call.op = "seek"
  THEN After(b, it, Returned("None", << >>, 0, 0))
  ELSE LET s == BytesIO_seek(b, pre.bytes.pos, SEEK_SET)
           r == BytesIO_read(s.b, call.arg, call.op = "read")
       IN After(r.b, it, Returned("bytes", r.ret, 0, 0))

\* the running call executes one loop iteration; leaving the loop, it runs
\* to its return
LoopStep ==
  /\ result.outcome = "running"
  /\ LET st == IF call.op = "read"
               THEN LoadUntilStep(bytes, iterator, result.val, pre.bytes.pos + call.arg)
               ELSE LoadAllStep(bytes, iterator) @@ [cur |-> result.val]
         after == CASE st.next = "loop"  -> After(st.b, st.it, Running(st.cur))
                    [] st.next = "raise" -> After(st.b, st.it, Raised("SourceError", 0))
                    [] OTHER             -> Finish(st.b, st.it)
     IN /\ bytes' = after.bytes
        /\ iterator' = after.iterator
        /\ result' = after.result
  /\ UNCHANGED <<call, pre>>

\* between two loading calls the caller moves the cursor with seek(position):
\* a call without a loop, made while no call is running
SeekStart(position) ==
  /\ result.outcome # "running"
  /\ Seek(position, SEEK_SET)

LoopNext ==
  \/ \E size \in Sizes : BeginRead(size)
  \/ BeginReadAll
  \/ \E position \in Positions : BeginSeekEnd(position)
  \/ LoopStep
  \/ \E position \in Positions : SeekStart(position)

\* the interpreter runs one call at a time to its end: a running call keeps
\* taking its steps
LoopSpec == Init /\ [][LoopNext]_vars /\ WF_vars(LoopStep)

(* ------------------------------ vocabulary of the properties ----------- *)
\* the whole stream: every chunk the iterator yields before StopIteration
Stream == Concat(iterator.items, Len(iterator.items))

cursor == bytes.pos
buffer == bytes.buf
preCursor == pre.bytes.pos
preBuffer == pre.bytes.buf
returned == result.outcome = "return"
\* chunks taken from the iterator by the last call
taken == iterator.idx - pre.iterator.idx

(* ------------------------------ C1 ------------------------------------- *)
\* C1: a read(size) with size >= 0 that returns has pulled chunks until the
\* buffer length reached target = cursor + size or the iterator signalled
\* StopIteration, and not a chunk beyond that; it returns the stream bytes at
\* offsets [cursor, min(target, buffer length)) and advances the cursor by the
\* number of bytes returned; a result shorter than size means the iterator is
\* exhausted.
C1_ReadSized ==
  (call.op = "read" /\ call.arg >= 0 /\ returned) =>
    LET target == preCursor + call.arg IN
    /\ Len(buffer) >= target \/ iterator.done
    /\ taken > 0 => Len(buffer) - Len(iterator.items[iterator.idx].data) < target
    /\ taken = 0 /\ result.pulls > 0 => Len(buffer) < target
    /\ result.kind = "bytes"
    /\ result.data = Slice(Stream, preCursor, Min(target, Len(buffer)))
    /\ cursor = preCursor + Len(result.data)
    /\ Len(result.data) < call.arg => iterator.done

\* a read from the middle of the buffer that ran past its end, pulled a chunk
\* and was served in full
C1_Witness ==
  /\ call.op = "read" /\ returned
  /\ preCursor > 0 /\ preCursor < Len(preBuffer)
  /\ preCursor + call.arg > Len(preBuffer)
  /\ taken >= 1
  /\ Len(result.data) = call.arg

(* ------------------------------ C2 ------------------------------------- *)
\* C2: a seek(position, END) that returns has drained the iterator and leaves
\* the cursor at (total stream length + position), for every position for which
\* that sum is a cursor (not negative).
C2_SeekEndOffset ==
  (call.op = "seek" /\ call.whence = SEEK_END /\ returned
     /\ Len(Stream) + call.arg >= 0) =>
    /\ iterator.done
    /\ buffer = Stream
    /\ cursor = Len(Stream) + call.arg

(* ------------------------------ C3 ------------------------------------- *)
\* C3: a seek that returns, whatever its whence, returns the resulting absolute
\* cursor, the value tell() gives right afterwards.
C3_SeekReturnsCursor ==
  (call.op = "seek" /\ returned) =>
    (result.kind = "int" /\ result.val = BytesIO_tell(bytes))

(* ------------------------------ C4 ------------------------------------- *)
\* C4 as stated: after a read() with no size that returns, the buffer holds the
\* whole stream, the iterator is exhausted, the result is every byte from the
\* pre-call cursor to the end of the stream, and the cursor is at the end of
\* the buffer.
C4_Original ==
  (call.op = "readall" /\ returned) =>
    /\ Len(buffer) = Len(Stream)
    /\ iterator.done
    /\ result.data = Slice(Stream, preCursor, Len(Stream))
    /\ cursor = Len(buffer)

\* C4 amended: after a read() with no size that returns, the buffer holds the
\* whole stream, the iterator is exhausted, the result is every byte from the
\* pre-call cursor to the end of the stream, and the cursor is at the end of
\* the buffer unless the pre-call cursor was already past it, in which case the
\* cursor stays where it was.
C4_ReadAll ==
  (call.op = "readall" /\ returned) =>
    /\ buffer = Stream
    /\ iterator.done
    /\ result.kind = "bytes"
    /\ result.data = Slice(Stream, preCursor, Len(Stream))
    /\ cursor = Max(preCursor, Len(buffer))

\* a read() from the middle of a partly buffered stream that pulled the rest
C4_Witness ==
  /\ call.op = "readall" /\ returned
  /\ preCursor > 0 /\ preCursor < Len(preBuffer)
  /\ taken >= 1
  /\ Len(result.data) > Len(preBuffer) - preCursor

(* ------------------------------ C5 ------------------------------------- *)
\* C5: read(0), at any cursor and whatever the state of the iterator, returns
\* an empty result, makes no next() call, and leaves buffer and cursor as they
\* were.
C5_ReadZeroNoPull ==
  (call.op = "read" /\ call.arg = 0) =>
    /\ returned
    /\ result.data = << >>
    /\ result.pulls = 0
    /\ bytes = pre.bytes
    /\ iterator = pre.iterator

(* ------------------------------ C6 ------------------------------------- *)
\* C6 as stated: seek(position, START) sets the cursor to position and
\* seek(position, CURRENT) sets it to cursor + position; neither makes a next()
\* call nor changes the buffer or the iterator.
C6_Original ==
  (call.op = "seek" /\ call.whence \in {SEEK_SET, SEEK_CUR}) =>
    /\ returned
    /\ call.whence = SEEK_SET => cursor = call.arg
    /\ call.whence = SEEK_CUR => cursor = preCursor + call.arg
    /\ result.pulls = 0
    /\ buffer = preBuffer
    /\ iterator = pre.iterator

\* C6 amended: seek(position, START) with position >= 0 sets the cursor to
\* position, and with position < 0 raises ValueError leaving the cursor where
\* it was; seek(position, CURRENT) sets the cursor to cursor + position, or to 0
\* when that sum is negative; neither makes a next() call nor changes the
\* buffer or the iterator, even when the new cursor exceeds the buffer length.
C6_SeekStartCurrent ==
  (call.op = "seek" /\ call.whence \in {SEEK_SET, SEEK_CUR}) =>
    /\ call.whence = SEEK_SET /\ call.arg >= 0 => returned /\ cursor = call.arg
    /\ call.whence = SEEK_SET /\ call.arg < 0 =>
         result.outcome = "ValueError" /\ cursor = preCursor
    /\ call.whence = SEEK_CUR => returned /\ cursor = Max(0, preCursor + call.arg)
    /\ result.pulls = 0
    /\ buffer = preBuffer
    /\ iterator = pre.iterator

\* a relative seek that put the cursor past the end of a partly buffered,
\* not yet exhausted stream
C6_Witness ==
  /\ call.op = "seek" /\ call.whence = SEEK_CUR /\ returned
  /\ Len(buffer) > 0
  /\ preCursor > 0 /\ preCursor <= Len(buffer)
  /\ cursor > Len(buffer)
  /\ iterator.idx < Len(iterator.items)

(* ------------------------------ C7 ------------------------------------- *)
\* C7 as stated: in every reachable state 0 <= cursor <= buffer length.
C7_Original == 0 <= cursor /\ cursor <= Len(buffer)

\* C7 amended: in every reachable state 0 <= cursor; cursor <= buffer length
\* holds on construction and after a seek(position, END) with position <= 0,
\* and read and tell preserve it, but a seek with whence START or CURRENT may
\* put the cursor past the buffer length (where a read that returns nothing
\* leaves it).
C7_CursorRange ==
  /\ 0 <= cursor
  /\ call.op = "init" => cursor <= Len(buffer)
  /\ call.op = "seek" /\ call.whence = SEEK_END /\ call.arg <= 0
       => cursor <= Len(buffer)
  /\ call.op \in {"read", "readall", "tell"} /\ preCursor <= Len(preBuffer)
       => cursor <= Len(buffer)

\* a sized read from inside the buffer that pulled a chunk and stopped short of
\* the new end of the buffer
C7_Witness ==
  /\ call.op = "read" /\ returned
  /\ preCursor < Len(preBuffer)
  /\ taken >= 1
  /\ cursor > Len(preBuffer) /\ cursor < Len(buffer)

(* ------------------------------ C8 ------------------------------------- *)
\* C8: the buffer is append-only: every step leaves the old buffer contents as
\* a prefix of the new ones (so its length never decreases and no buffered
\* byte is rewritten), wherever the cursor was when chunks were pulled.
C8_AppendOnly == [][IsPrefix(bytes.buf, bytes'.buf)]_vars

\* a pull that happened while the cursor lay strictly inside the buffer
C8_Witness ==
  /\ call.op \in {"read", "readall", "seek"}
  /\ preCursor > 0 /\ preCursor < Len(preBuffer)
  /\ Len(buffer) > Len(preBuffer)

(* ------------------------------ C9 ------------------------------------- *)
\* C9: a read(size) whose range [cursor, cursor + size) lies within the bytes
\* already buffered, and any seek with whence START or CURRENT, makes no
\* next() call on the iterator and leaves the iterator as it was.
C9_NoRedundantPull ==
  /\ (call.op = "read" /\ call.arg >= 0 /\ preCursor + call.arg <= Len(preBuffer))
       => (result.pulls = 0 /\ iterator = pre.iterator)
  /\ (call.op = "seek" /\ call.whence \in {SEEK_SET, SEEK_CUR})
       => (result.pulls = 0 /\ iterator = pre.iterator)

\* a re-read, after seeking back, of bytes ending exactly at the end of the
\* buffer while the iterator still has chunks to give
C9_Witness ==
  /\ call.op = "read" /\ returned
  /\ call.arg > 0
  /\ preCursor + call.arg = Len(preBuffer)
  /\ pre.iterator.idx > 0
  /\ pre.iterator.idx < Len(pre.iterator.items)
  /\ result.data = Slice(Stream, preCursor, Len(preBuffer))

(* ------------------------------ C10 ------------------------------------ *)
\* C10: a read with a negative size, and a seek with a whence other than
\* START, CURRENT, END, ends in an invalid-argument error (ValueError) before
\* any next() call, leaving buffer, cursor and iterator unchanged.
C10_InvalidArguments ==
  ((call.op = "read" /\ call.arg < 0)
     \/ (call.op = "seek" /\ call.whence \notin {SEEK_SET, SEEK_CUR, SEEK_END})) =>
    /\ result.outcome = "ValueError"
    /\ result.pulls = 0
    /\ bytes = pre.bytes
    /\ iterator = pre.iterator

(* ------------------------------ C11 ------------------------------------ *)
\* an iterator that only yields chunks and then StopIteration
NoFailure(items) == \A i \in 1 .. Len(items) : ~items[i].fail

\* the calls C11 speaks of: read(size >= 0), read(), and seek with one of the
\* three whence values of the interface
C11_Call ==
  \/ call.op = "read" /\ call.arg >= 0
  \/ call.op = "readall"
  \/ call.op = "seek" /\ call.whence \in {SEEK_SET, SEEK_CUR, SEEK_END}

\* C11 as stated: over an iterator that only yields chunks and then stops,
\* every read(size >= 0), read() and seek call returns normally, and a read
\* past the end of the stream returns the (possibly empty) rest of the stream.
C11_Original ==
  (NoFailure(iterator.items) /\ C11_Call) =>
    /\ returned
    /\ call.op = "read" /\ preCursor + call.arg > Len(Stream)
         => result.data = Slice(Stream, preCursor, Len(Stream))

\* C11 amended: over an iterator that only yields chunks and then stops, every
\* read(size >= 0), read(), seek(position, CURRENT), seek(position, END) and
\* seek(position >= 0, START) returns normally, and a read past the end of the
\* stream returns the (possibly empty) rest of the stream; seek(position < 0,
\* START) is the one call that raises, whatever the state of the stream.
C11_EndOfStreamNoError ==
  (NoFailure(iterator.items) /\ C11_Call) =>
    /\ returned <=> ~(call.op = "seek" /\ call.whence = SEEK_SET /\ call.arg < 0)
    /\ call.op = "read" /\ preCursor + call.arg > Len(Stream)
         => (returned /\ result.data = Slice(Stream, preCursor, Len(Stream)))

\* a read issued with the iterator already exhausted and the cursor at or
\* past the end of a non-empty buffer: it returns nothing
C11_Witness ==
  /\ NoFailure(iterator.items)
  /\ call.op = "read" /\ call.arg > 0 /\ returned
  /\ pre.iterator.done
  /\ Len(preBuffer) > 0 /\ preCursor >= Len(preBuffer)
  /\ result.data = << >>

(* ------------------------------ C12 ------------------------------------ *)
\* a failing item among the first k items of the iterator
FailedWithin(items, k) == \E i \in 1 .. k : items[i].fail

\* C12: a call whose pull hits the transport's exception ends with that
\* exception, right at the failing pull, inside read or seek(..., END); the
\* buffer then holds the bytes it held before plus exactly the chunks pulled
\* before the failing pull; and after a failure every read(size >= 0) over
\* bytes already buffered returns those bytes.
C12_FailurePropagates ==
  /\ (taken > 0 /\ \E i \in pre.iterator.idx + 1 .. iterator.idx : iterator.items[i].fail) =>
       /\ result.outcome = "SourceError"
       /\ iterator.items[iterator.idx].fail
       /\ \A i \in pre.iterator.idx + 1 .. iterator.idx - 1 : ~iterator.items[i].fail
       /\ call.op \in {"read", "readall"} \/ (call.op = "seek" /\ call.whence = SEEK_END)
       /\ buffer = Concat(iterator.items, iterator.idx)
       /\ IsPrefix(preBuffer, buffer)
  /\ (result.outcome = "SourceError") => iterator.items[iterator.idx].fail /\ taken > 0
  /\ (FailedWithin(iterator.items, pre.iterator.idx) /\ call.op = "read"
        /\ call.arg >= 0 /\ preCursor + call.arg <= Len(preBuffer)) =>
       /\ returned
       /\ result.data = Slice(Concat(iterator.items, pre.iterator.idx),
                              preCursor, preCursor + call.arg)
       /\ buffer = preBuffer

\* after a failed pull, a read of bytes that were buffered before the failure
C12_Witness ==
  /\ FailedWithin(iterator.items, pre.iterator.idx)
  /\ call.op = "read" /\ call.arg > 0 /\ returned
  /\ preCursor + call.arg <= Len(preBuffer)
  /\ Len(result.data) = call.arg

(* ------------------------------ C13 ------------------------------------ *)
\* The reference: an in-memory binary stream (io.BytesIO) holding the whole
\* stream, standing at the position the adapter stood at before the call, and
\* given the same call.  Its outcome, returned value and new position:
RefCall ==
  LET ref == [buf |-> Stream, pos |-> preCursor] IN
  CASE call.op = "read" ->
         LET r == BytesIO_read(ref, call.arg, TRUE)
         IN [pos |-> r.b.pos, res |-> Returned("bytes", r.ret, 0, 0)]
    [] call.op = "readall" ->
         LET r == BytesIO_read(ref, 0, FALSE)
         IN [pos |-> r.b.pos, res |-> Returned("bytes", r.ret, 0, 0)]
    [] call.op = "seek" ->
         LET s == BytesIO_seek(ref, call.arg, call.whence)
         IN [pos |-> s.b.pos,
             res |-> IF s.err THEN Raised("ValueError", 0)
                              ELSE Returned("int", << >>, s.ret, 0)]
    [] OTHER ->
         [pos |-> ref.pos, res |-> Returned("int", << >>, BytesIO_tell(ref), 0)]

\* C13: over an iterator that only yields chunks and then stops, every
\* read(size >= 0), read(), seek(position, START | CURRENT | END) and tell call
\* made where adapter and reference stand at the same position ends as the
\* reference's call ends (same outcome, same returned value) and leaves the
\* adapter's cursor where the reference's is, so that the two agree call after
\* call.
C13_Substitutable ==
  (NoFailure(iterator.items) /\ (C11_Call \/ call.op = "tell")) =>
    /\ result.outcome = RefCall.res.outcome
    /\ result.kind = RefCall.res.kind
    /\ result.data = RefCall.res.data
    /\ result.val = RefCall.res.val
    /\ cursor = RefCall.pos

(* ------------------------------ C14 ------------------------------------ *)
\* C14: tell() returns the cursor, makes no next() call and leaves BytesIO and
\* iterator as they were; a second tell() made right after it ends exactly as
\* the first did (same value, nothing changed).
C14_TellIdempotent ==
  (call.op = "tell") =>
    /\ returned
    /\ result.kind = "int"
    /\ result.val = preCursor
    /\ result.pulls = 0
    /\ bytes = pre.bytes
    /\ iterator = pre.iterator
    /\ ResponseStream_tell(bytes, iterator) = After(bytes, iterator, result)

\* a tell() with the cursor inside a partly buffered, unexhausted stream
C14_Witness ==
  /\ call.op = "tell" /\ returned
  /\ result.val > 0 /\ result.val < Len(buffer)
  /\ iterator.idx < Len(iterator.items)

(* ------------------------------ C15 ------------------------------------ *)
\* C15: a call that starts after the iterator has raised StopIteration makes
\* no next() call.
C15_NoPullAfterExhaustion == pre.iterator.done => result.pulls = 0

(* ------------------------------ C16 ------------------------------------ *)
\* the least number of leading items whose bytes reach goal, all of them when
\* the whole stream is shorter
MinCover(items, goal) ==
  IF \E k \in 0 .. Len(items) : Len(Concat(items, k)) >= goal
  THEN CHOOSE k \in 0 .. Len(items) :
         /\ Len(Concat(items, k)) >= goal
         /\ \A j \in 0 .. k - 1 : Len(Concat(items, j)) < goal
  ELSE Len(items)

\* a stream on which no next() call was made yet and whose cursor is p: what
\* seek(p, START) leaves of a fresh stream
FreshAt(st) ==
  /\ st.iterator.idx = 0
  /\ ~st.iterator.done
  /\ st.bytes.buf = << >>

\* C16: on a fresh stream, seek(p, START) followed by a read(n), n >= 0, that
\* returns gives the stream bytes at offsets [p, p + n), cut at the end of the
\* stream, and takes from the iterator exactly the least number of chunks
\* whose lengths add up to p + n, or all of them when the stream is shorter.
C16_SeekThenRead ==
  (FreshAt(pre) /\ call.op = "read" /\ call.arg >= 0 /\ returned) =>
    /\ result.data = Slice(Stream, preCursor, Min(preCursor + call.arg, Len(Stream)))
    /\ iterator.idx = MinCover(iterator.items, preCursor + call.arg)
    /\ buffer = Concat(iterator.items, iterator.idx)

\* chunks of two bytes each, seek(1) then read(2): one byte of each chunk,
\* both chunks pulled and no StopIteration asked for
C16_Witness ==
  /\ FreshAt(pre) /\ call.op = "read" /\ returned
  /\ preCursor = 1 /\ call.arg = 2
  /\ Len(iterator.items) = 2
  /\ Len(iterator.items[1].data) = 2 /\ Len(iterator.items[2].data) = 2
  /\ result.data = <<2, 3>>
  /\ iterator.idx = 2 /\ ~iterator.done

(* ------------------------------ C18 ------------------------------------ *)
\* C18: in every reachable state the buffer is the concatenation, in iterator
\* order, of exactly the chunks taken from the iterator so far.
C18_BufferIsPulledPrefix == buffer = Concat(iterator.items, iterator.idx)

\* chunks pulled while the cursor stood past the end of a non-empty buffer
C18_Witness ==
  /\ Len(preBuffer) > 0 /\ preCursor > Len(preBuffer)
  /\ taken >= 1
  /\ Len(buffer) > Len(preBuffer)

(* ------------------------------ C19 ------------------------------------ *)
\* C19: a call that ends with the iterator's exception leaves the cursor where
\* it was before the call.
C19_CursorKeptOnFailure == result.outcome = "SourceError" => cursor = preCursor

(* ------------------------------ C17 ------------------------------------ *)
\* C17: over every finite iterator, empty chunks included, the pull loop of
\* read(size), read() and seek(..., END) terminates: a running call always
\* comes to its end; and the loop stops as soon as the goal is met or
\* StopIteration is raised: while it still runs, no StopIteration was raised
\* in this call and, in read(size), the buffer without the last chunk pulled
\* was short of the goal; when a read(size) returns, the buffer has reached the
\* goal or the iterator is exhausted.
C17_PullLoopTerminates ==
  /\ [](result.outcome = "running" =>
          /\ iterator.done = pre.iterator.done
          /\ call.op = "read" /\ taken > 0 =>
               Len(buffer) - Len(iterator.items[iterator.idx].data)
                 < preCursor + call.arg)
  /\ [](call.op = "read" /\ returned =>
          (Len(buffer) >= preCursor + call.arg \/ iterator.done))
  /\ (result.outcome = "running") ~> (result.outcome # "running")

\* a read(size) that pulled an empty chunk, then met StopIteration short of
\* its goal, and returned
C17_Witness ==
  /\ call.op = "read" /\ returned
  /\ \E i \in pre.iterator.idx + 1 .. iterator.idx : Len(iterator.items[i].data) = 0
  /\ iterator.done /\ ~pre.iterator.done
  /\ Len(buffer) < preCursor + call.arg
  /\ Len(buffer) > 0

====
